---- MODULE Spec2Model ----
(***************************************************************************)
(* The master orchestrator of mcp_servers: the dispatcher                  *)
(* MCPServiceClient.call_tool and the sequential WorkflowEngine, in their  *)
(* two hosts, 00_master_mcp/mcp_host.py ("http") and                       *)
(* 00_master_mcp/mcp_host_stdio_claude.py ("stdio"); the direct tool call  *)
(* endpoint of a service (archived_services/01_linux_cli_mcp); and, in a   *)
(* specification of their own, the health aggregations of the two hosts    *)
(* and of health_monitor.py.                                               *)
(*                                                                         *)
(* Representation of the Python values:                                    *)
(*   - a dotted name ("ai.models", "docs.search") is the sequence of its   *)
(*     segments, so that "a" + "." + "b" is the concatenation a \o b and   *)
(*     a dotted prefix is a prefix of the sequence; "" is <<"">>;          *)
(*   - an Optional value is a set with at most one element, None is {};    *)
(*   - a dict is a record (a workflow step is a record whose domain holds  *)
(*     the keys the caller wrote) or, for free-form maps, a set of         *)
(*     <<key, value>> pairs;                                               *)
(*   - every string (names, ids, messages) is such a sequence;             *)
(*   - str(uuid.uuid4()) is the next token "u1", "u2", ... of a counter.   *)
(***************************************************************************)
EXTENDS Integers, Sequences, FiniteSets, TLC

VARIABLES
    host,            \* which host's engine runs: "http" or "stdio"
    workflow,        \* the workflow dict the tool was invoked with
    supplied,        \* the correlation id the caller supplied (Optional)
    pc,              \* "pending", "loop", "awaiting", "returned", "raised",
                     \* "cancelled"
    i,               \* the loop index of execute_workflow (zero-based)
    results,         \* execute_workflow's local list `results`
    correlation_id,  \* the correlation id of the run (Optional)
    uuid_count,      \* number of uuid4() tokens drawn so far
    calls,           \* history: the call_tool invocations, in order
    sent,            \* history: the HTTP POSTs issued, in order
    inflight,        \* the POSTs whose response is still awaited
    ret,             \* the dict execute_workflow returned (Optional)
    settled,         \* history: the POSTs that settled, with what settled them
    aggregator,      \* which health aggregation runs
    hpc,             \* "off", "pending", "running", "returned"
    probe,           \* per probed namespace: its state and its outcome
    health_status,   \* the report under construction: <<namespace, entry>>
    cancelled,       \* the task running the workflow was cancelled
    registry,        \* the module-level dict SERVICES of mcp_host.py
    listed,          \* what system_listServices returned (Optional)
    runs,            \* two concurrent runs: the locals of each
    summary,         \* what check_health.py printed last (Optional)
    files,           \* the file system: the content of each existing file
    backups,         \* the backup copies made: <<path, content>>
    write_log        \* history: the calls of write_file_tool

\* the variables of the workflow engine and those of the health aggregation
wvars == <<host, workflow, supplied, pc, i, results, correlation_id,
           uuid_count, calls, sent, inflight, ret, settled, cancelled>>

hvars == <<aggregator, hpc, probe, health_status>>

\* the variables of the other tools and scripts
xvars == <<runs, summary, files, backups, write_log>>

vars == <<wvars, hvars, registry, listed, xvars>>

\* Longest workflow the model runs.
MaxSteps == 3

(***************************************************************************)
(* Python helpers                                                          *)
(***************************************************************************)
None == {}

Some(v) == {v}

The(opt) == CHOOSE v \in opt : TRUE

\* d.get(k) on a record
Get(d, k) == IF k \in DOMAIN d THEN {d[k]} ELSE None

EmptyStr == <<"">>

\* bool(x) of an Optional string: None and "" are falsy
Truthy(opt) == opt # None /\ opt # {EmptyStr}

\* x or default
OrDefault(opt, default) == IF Truthy(opt) THEN The(opt) ELSE default

\* f"{a}.{b}" on dotted names
Join(a, b) == a \o b

Uuid(n) == <<"u" \o ToString(n)>>

(***************************************************************************)
(* The registry of mcp_host.py                                             *)
(***************************************************************************)
Url(base, path) == [base |-> base, path |-> path]

SERVICES ==
    (<<"docs">>         :> Url("http://01_documentation_mcp:8001", "/sse")) @@
    (<<"cmdb">>         :> Url("http://02_cmdb_mcp:8002", "/sse")) @@
    (<<"secrets">>      :> Url("http://03_secrets_mcp:8003", "/sse")) @@
    (<<"ai", "models">> :> Url("http://04_ai_models_mcp:8004", "/sse")) @@
    (<<"vector">>       :> Url("http://05_vector_db_mcp:8005", "/sse"))

\* SERVICES[service_namespace]; it is read only after the membership test
TargetUrl(service_namespace) ==
    IF service_namespace \in DOMAIN SERVICES
    THEN SERVICES[service_namespace]
    ELSE Url("", "")

\* mutant: a namespace passes the test as soon as it is a dotted prefix of
\* a registered one
NotConfiguredPrefix(service_namespace) ==
    ~\E k \in DOMAIN SERVICES :
        /\ Len(service_namespace) <= Len(k)
        /\ SubSeq(k, 1, Len(service_namespace)) = service_namespace

\* mutant: the namespace is cut at its first dot before the lookup
NotConfiguredFirstDot(service_namespace) ==
    <<Head(service_namespace)>> \notin DOMAIN SERVICES

\* the membership test that opens call_tool
NotConfigured(service_namespace) == service_namespace \notin DOMAIN SERVICES

\* mutant: the comparison with a fixed name hits a registered namespace
PostUrlDocsDirect(service_namespace) ==
    LET target_url_from_config == TargetUrl(service_namespace) IN
    IF service_namespace = <<"docs">>
    THEN Url(target_url_from_config.base, "/direct_tool_call")
    ELSE IF target_url_from_config.path = "/sse"
    THEN Url(target_url_from_config.base, "/messages/")
    ELSE Url(target_url_from_config.base \o target_url_from_config.path,
             "/messages/")

\* post_url of call_tool
PostUrl(service_namespace) ==
    LET target_url_from_config == TargetUrl(service_namespace) IN
    IF service_namespace = <<"os", "linux">>
    THEN Url(target_url_from_config.base, "/direct_tool_call")
    ELSE IF target_url_from_config.path = "/sse"
    THEN Url(target_url_from_config.base, "/messages/")
    ELSE Url(target_url_from_config.base \o target_url_from_config.path,
             "/messages/")

\* base_url of the STDIO host's client
StdioBaseUrl == Url("http://localhost:8000", "/mcp/")

\* params if params is not None else {}
ParamsOrEmpty(params) == IF params = None THEN {} ELSE The(params)

\* mutant: the PDU names the tool without its namespace
mcp_pduBareTool(service_namespace, tool_name, params, cid, n) ==
    [mcp_version |-> "2.0",
     id          |-> Uuid(n + 1),
     type        |-> "tool_call",
     tool_name   |-> tool_name,
     parameters  |-> ParamsOrEmpty(params),
     context     |-> IF Truthy(cid)
                     THEN {<<"correlation_id", The(cid)>>}
                     ELSE {}]

\* the inner PDU of the HTTP host; n uuids were drawn before
mcp_pdu(service_namespace, tool_name, params, cid, n) ==
    [mcp_version |-> "2.0",
     id          |-> Uuid(n + 1),
     type        |-> "tool_call",
     tool_name   |-> Join(service_namespace, tool_name),
     parameters  |-> ParamsOrEmpty(params),
     context     |-> IF Truthy(cid)
                     THEN {<<"correlation_id", The(cid)>>}
                     ELSE {}]

\* mutant: the wrapper takes the id of the PDU it wraps
json_rpc_payloadSameId(pdu, n) ==
    [jsonrpc |-> "2.0", method |-> "tools/call", params |-> pdu,
     id |-> pdu.id]

\* the JSON-RPC wrapper of the HTTP host
json_rpc_payload(pdu, n) ==
    [jsonrpc |-> "2.0", method |-> "tools/call", params |-> pdu,
     id |-> Uuid(n + 2)]

\* the payload of the STDIO host: no wrapper, the id at the top level
mcp_payload(tool_name, params, cid, n) ==
    LET base == [mcp_version |-> "2.0",
                 id          |-> Uuid(n + 1),
                 type        |-> "tool_call",
                 tool_name   |-> tool_name,
                 parameters  |-> ParamsOrEmpty(params)]
    IN  IF Truthy(cid)
        THEN base @@ [correlation_id |-> The(cid)]
        ELSE base

\* the POST call_tool issues: [step, url, json]
PostOf(h, index, service, tool, params, cid, n) ==
    IF h = "http"
    THEN [step |-> index, url |-> PostUrl(service),
          json |-> json_rpc_payload(mcp_pdu(service, tool, params, cid, n), n)]
    ELSE [step |-> index, url |-> StdioBaseUrl,
          json |-> mcp_payload(Join(service, tool), params, cid, n)]

\* uuid4() calls one call_tool makes before its POST
UuidsPerCall(h) == IF h = "http" THEN 2 ELSE 1

(***************************************************************************)
(* What the HTTP client hands back to call_tool.  A response is            *)
(*   [exc, status_code, json, text]: exc names the httpx.RequestError      *)
(* raised instead of a response ("" when there is one), json is the parsed *)
(* body (None when the body is not JSON).                                  *)
(***************************************************************************)
Response(status_code, json, text) ==
    [exc |-> "", status_code |-> status_code, json |-> json, text |-> text]

Raised(exc) == [exc |-> exc, status_code |-> 0, json |-> None, text |-> ""]

\* response.raise_for_status() passes
IsSuccessCode(status_code) == status_code >= 200 /\ status_code < 300

\* the downstream PDUs
ToolResultPdu(id, tool_name, ctx) ==
    [mcp_version |-> "2.0", id |-> id, type |-> "tool_result",
     tool_name |-> tool_name, result |-> <<"ok">>, context |-> ctx]

ToolErrorPdu(id, tool_name, ctx) ==
    [mcp_version |-> "2.0", id |-> id, type |-> "tool_error",
     tool_name |-> tool_name,
     error |-> [type |-> "error", message |-> <<"boom">>], context |-> ctx]

\* a PDU of a type the decoder does not know: the request echoed back
OtherPdu(id, tool_name, ctx) ==
    [mcp_version |-> "2.0", id |-> id, type |-> "tool_call",
     tool_name |-> tool_name, context |-> ctx]

JsonRpcResult(pdu, id) == [jsonrpc |-> "2.0", result |-> pdu, id |-> id]

JsonRpcError(code, message, id) ==
    [jsonrpc |-> "2.0", error |-> [code |-> code, message |-> message],
     id |-> id]

\* lines 106-115 of mcp_host.py: the JSON-RPC wrapper is taken off
mcp_response(result_data) ==
    IF "jsonrpc" \in DOMAIN result_data /\ "result" \in DOMAIN result_data
    THEN result_data.result
    ELSE result_data

\* mcp_response.get("error", {}).get("message", default)
ErrorMessage(pdu, default) ==
    IF "error" \in DOMAIN pdu /\ "message" \in DOMAIN pdu.error
    THEN pdu.error.message
    ELSE default

\* mutant: whatever is not an error PDU is taken for a result
DecodeHttpLenient(result_data) ==
    LET m == mcp_response(result_data) IN
    IF Get(m, "type") = Some("tool_error")
    THEN [status |-> "error",
          error |-> ErrorMessage(m,
                      <<"Unknown tool error from downstream service">>),
          details |-> Get(m, "error"), id |-> Get(m, "id")]
    ELSE [status |-> "success", result |-> Get(m, "result"),
          id |-> Get(m, "id")]

\* lines 117-122 of mcp_host.py
DecodeHttp(result_data) ==
    LET m == mcp_response(result_data) IN
    IF Get(m, "type") = Some("tool_result")
    THEN [status |-> "success", result |-> Get(m, "result"),
          id |-> Get(m, "id")]
    ELSE IF Get(m, "type") = Some("tool_error")
    THEN [status |-> "error",
          error |-> ErrorMessage(m,
                      <<"Unknown tool error from downstream service">>),
          details |-> Get(m, "error"), id |-> Get(m, "id")]
    ELSE [status |-> "error",
          error |-> <<"Unexpected MCP response type from downstream service">>,
          details |-> Some(result_data), id |-> Get(result_data, "id")]

\* lines 83-88 of mcp_host_stdio_claude.py: no wrapper is taken off
DecodeStdio(result_data) ==
    IF Get(result_data, "type") = Some("tool_result")
    THEN [status |-> "success", result |-> Get(result_data, "result"),
          id |-> Get(result_data, "id")]
    ELSE IF Get(result_data, "type") = Some("tool_error")
    THEN [status |-> "error",
          error |-> ErrorMessage(result_data, <<"Unknown tool error">>),
          details |-> Get(result_data, "error"),
          id |-> Get(result_data, "id")]
    ELSE [status |-> "error", error |-> <<"Unexpected MCP response type">>,
          details |-> Some(result_data), id |-> Get(result_data, "id")]

\* mutant: the upstream body is dropped from the HTTP error
HttpStatusErrorResultNoBody(h, resp) ==
    [status |-> "error",
     error |-> <<"HTTP error", ToString(resp.status_code)>>,
     details |-> None]

\* the except clauses of call_tool
HttpStatusErrorResult(h, resp) ==
    [status |-> "error",
     error |-> <<"HTTP error", ToString(resp.status_code)>>,
     details |-> IF resp.json # None
                 THEN resp.json
                 ELSE IF h = "http"
                      THEN Some([error_message |-> resp.text])
                      ELSE Some([error |-> resp.text])]

RequestErrorResult(resp) ==
    [status |-> "error", error |-> <<"Request error", resp.exc>>]

UnexpectedErrorResult(h) ==
    [status |-> "error",
     error |-> IF h = "http"
               THEN <<"Unexpected error during tool call">>
               ELSE <<"Unexpected error">>]

\* a body that is JSON but not an object: response.json() returns a list
JsonArrayText == "[1, 2]"

\* the exception the try block of call_tool raises on resp, "" when the
\* block runs to its return: the httpx.RequestError of the POST,
\* raise_for_status(), response.json() on a body that is not JSON, .get on
\* a body that is not a dict
TryRaises(h, resp) ==
    IF resp.exc # "" THEN resp.exc
    ELSE IF ~IsSuccessCode(resp.status_code) THEN "HTTPStatusError"
    ELSE IF resp.json # None THEN ""
    ELSE IF resp.text = JsonArrayText THEN "AttributeError"
    ELSE "JSONDecodeError"

\* the subclasses of httpx.RequestError the model raises
RequestErrors == {"ConnectError", "ReadTimeout"}

\* mutant: call_tool without its last clause, except Exception
ExceptClauseNoCatchAll(exc) ==
    IF exc = "HTTPStatusError" THEN "HTTPStatusError"
    ELSE IF exc \in RequestErrors THEN "RequestError"
    ELSE ""

\* asyncio.CancelledError derives from BaseException, not from Exception
BaseExceptions == {"CancelledError"}

\* mutant: the last clause is a bare except
ExceptClauseBare(exc) ==
    IF exc = "HTTPStatusError" THEN "HTTPStatusError"
    ELSE IF exc \in RequestErrors THEN "RequestError"
    ELSE "Exception"

\* the except clause of call_tool that handles exc ("" when none does)
ExceptClause(exc) ==
    IF exc = "HTTPStatusError" THEN "HTTPStatusError"
    ELSE IF exc \in RequestErrors THEN "RequestError"
    ELSE IF exc \in BaseExceptions THEN ""
    ELSE "Exception"

\* the exception leaves call_tool
Escapes(h, resp) ==
    TryRaises(h, resp) # "" /\ ExceptClause(TryRaises(h, resp)) = ""

\* what call_tool returns once the POST has settled with resp
ResultOfResponse(h, resp) ==
    LET exc == TryRaises(h, resp) IN
    IF exc = ""
    THEN IF h = "http" THEN DecodeHttp(The(resp.json))
         ELSE DecodeStdio(The(resp.json))
    ELSE IF ExceptClause(exc) = "HTTPStatusError"
    THEN HttpStatusErrorResult(h, resp)
    ELSE IF ExceptClause(exc) = "RequestError" THEN RequestErrorResult(resp)
    ELSE UnexpectedErrorResult(h)

\* what call_tool returns without any POST
NotConfiguredResult(service_namespace) ==
    [status |-> "error",
     error |-> <<"Service namespace not configured">> \o service_namespace]

(***************************************************************************)
(* WorkflowEngine.execute_workflow                                         *)
(***************************************************************************)
\* the steps a caller may write
StepKinds ==
    { [service |-> <<"docs">>, tool |-> <<"search">>,
       params |-> {<<"query", "tla">>}],
      [service |-> <<"ai", "models">>, tool |-> <<"generate">>],
      [service |-> <<"ai">>, tool |-> <<"models", "generate">>, params |-> {}],
      [tool |-> <<"search">>, params |-> {}],
      [service |-> <<"docs">>, params |-> {}],
      [service |-> EmptyStr, tool |-> <<"search">>, params |-> {}] }

Workflows ==
    { [name |-> <<"wf">>, steps |-> st] :
        st \in UNION { [1..n -> StepKinds] : n \in 0..MaxSteps } }

\* the correlation ids a caller may supply: none, "" or "c1"
SuppliedIds == { None, Some(EmptyStr), Some(<<"c1">>) }

\* the condition under which a step is refused before any dispatch
Malformed(h, step) ==
    IF h = "http"
    THEN ~Truthy(Get(step, "service")) \/ ~Truthy(Get(step, "tool"))
    ELSE ~("service" \in DOMAIN step /\ "tool" \in DOMAIN step)

\* error_result of a refused step
MalformedResult(h, index) ==
    [status |-> "error",
     error |-> IF h = "http"
               THEN <<"step is missing 'service' or 'tool' key",
                      ToString(index + 1)>>
               ELSE <<"Malformed step: missing 'service' or 'tool'",
                      ToString(index + 1)>>]

\* the entry appended for a refused step
MalformedEntry(h, step, index) ==
    IF h = "http"
    THEN [step_name   |-> Join(OrDefault(Get(step, "service"),
                                         <<"unknown_service">>),
                               OrDefault(Get(step, "tool"),
                                         <<"unknown_tool">>)),
          description |-> index + 1,
          result      |-> MalformedResult(h, index)]
    ELSE [step_name |-> <<"malformed_step">>,
          result    |-> MalformedResult(h, index)]

\* mutant: the entry is named after the tool alone
StepEntryToolOnly(h, step, index, step_result) ==
    IF h = "http"
    THEN [step_name   |-> step.tool,
          description |-> index + 1,
          result      |-> step_result]
    ELSE [step_name |-> step.tool,
          result    |-> step_result]

\* the entry appended after a dispatch
StepEntry(h, step, index, step_result) ==
    IF h = "http"
    THEN [step_name   |-> Join(step.service, step.tool),
          description |-> index + 1,
          result      |-> step_result]
    ELSE [step_name |-> Join(step.service, step.tool),
          result    |-> step_result]

\* mutant: the test compares with the status of a workflow, not of a Result
IsErrorResultFailed(step_result) == step_result.status = "failed"

\* mutant: only an error that carries details ends the run
IsErrorResultWithDetails(step_result) ==
    step_result.status = "error" /\ "details" \in DOMAIN step_result

\* the test that ends the run after a dispatch
IsErrorResult(step_result) == step_result.status = "error"

\* the value of "step_failed_at" for loop index index
StepFailedAt(h, index) == IF h = "http" THEN index + 1 ELSE index

\* mutant: the reason is a fixed malformed-step message, whatever failed
FailedReturnFixedReason(h, wf, index, reason, res, cid) ==
    [workflow_name |-> wf.name, status |-> "failed",
     step_failed_at |-> StepFailedAt(h, index),
     reason |-> MalformedResult(h, index), results |-> res]

\* the dict returned when the run fails at loop index index
FailedReturn(h, wf, index, reason, res, cid) ==
    IF h = "http"
    THEN [workflow_name |-> wf.name, status |-> "failed",
          step_failed_at |-> StepFailedAt(h, index), reason |-> reason,
          results |-> res, correlation_id |-> cid]
    ELSE [workflow_name |-> wf.name, status |-> "failed",
          step_failed_at |-> StepFailedAt(h, index), reason |-> reason,
          results |-> res]

\* the dict returned when the loop ends
CompletedReturn(h, wf, res, cid) ==
    IF h = "http"
    THEN [workflow_name |-> wf.name, status |-> "completed",
          results |-> res, correlation_id |-> cid]
    ELSE [workflow_name |-> wf.name, status |-> "completed",
          results |-> res]

\* the correlation id the tool entry point hands to the engine; fresh is
\* the uuid the STDIO host draws as the default of getattr
RunCorrelationId(h, sup, fresh) ==
    IF h = "http" THEN sup
    ELSE IF sup = None THEN Some(fresh) ELSE sup

\* uuid4() calls of the tool entry point
UuidsAtEntry(h) == IF h = "http" THEN 0 ELSE 1

\* how handle_direct_tool_call finds the tool, and what the tool's
\* handler does once it is called
ToolLookups == {"tool_function", "call_tool", "none"}

HandlerOutcomes == {"returns", "raises", "not_run"}

\* the handler is called on the first two paths when the tool exists
HandlerRuns ==
    { <<"tool_function", "returns">>, <<"tool_function", "raises">>,
      <<"call_tool", "returns">>, <<"call_tool", "raises">>,
      <<"call_tool", "not_run">>, <<"none", "not_run">> }

\* the reply of the direct tool call endpoint of a service
handle_direct_tool_call(json_rpc_request, lookup, outcome) ==
    IF \/ ~({"jsonrpc", "method", "params", "id"}
               \subseteq DOMAIN json_rpc_request)
       \/ json_rpc_request.jsonrpc # "2.0"
    THEN Response(400, Some(JsonRpcError(-32600, <<"Invalid Request">>,
                                          EmptyStr)), "")
    ELSE
    LET json_rpc_id == json_rpc_request.id
        pdu         == json_rpc_request.params
    IN
    IF \/ ~({"type", "tool_name", "parameters"} \subseteq DOMAIN pdu)
       \/ pdu.type # "tool_call"
    THEN Response(400, Some(JsonRpcError(-32602,
                    <<"Invalid params: Malformed MCP PDU">>, json_rpc_id)),
                  "")
    ELSE
    LET ctx == IF "context" \in DOMAIN pdu THEN pdu.context ELSE {}
    IN
    IF lookup = "call_tool" /\ outcome = "returns"
    THEN Response(200, Some(JsonRpcResult(
                    ToolResultPdu(pdu.id, pdu.tool_name, ctx), json_rpc_id)),
                  "")
    ELSE IF lookup # "tool_function"
    THEN Response(404, Some(JsonRpcError(-32601,
                    <<"Method not found: Tool not found">> \o pdu.tool_name,
                    json_rpc_id)), "")
    ELSE IF outcome = "returns"
    THEN Response(200, Some(JsonRpcResult(
                    ToolResultPdu(pdu.id, pdu.tool_name, ctx), json_rpc_id)),
                  "")
    ELSE Response(200, Some(JsonRpcResult(
                    ToolErrorPdu(pdu.id, pdu.tool_name, ctx), json_rpc_id)),
                  "")

\* what may settle one POST: the reply, and whether a tool handler raised
\* while the reply was made
DownstreamEvents(h, post) ==
    LET pdu_id == IF h = "http" THEN post.json.params.id ELSE post.json.id
        name   == IF h = "http" THEN post.json.params.tool_name
                  ELSE post.json.tool_name
        ctx    == IF h = "http" THEN post.json.params.context ELSE {}
    IN  { [resp  |-> handle_direct_tool_call(post.json, run[1], run[2]),
           fault |-> run[2] = "raises"] : run \in HandlerRuns }
        \cup
        { [resp |-> r, fault |-> FALSE] : r \in
            { Response(200, Some(JsonRpcResult(
                         ToolResultPdu(pdu_id, name, ctx), post.json.id)),
                       ""),
              Response(200, Some(ToolResultPdu(pdu_id, name, ctx)), ""),
              Response(200, Some(ToolErrorPdu(pdu_id, name, ctx)), ""),
              Response(200, Some(JsonRpcResult(
                         OtherPdu(pdu_id, name, ctx), post.json.id)), ""),
              Response(200, Some(OtherPdu(pdu_id, name, ctx)), ""),
              Response(500, Some(JsonRpcError(-32603, <<"Internal error">>,
                                               EmptyStr)), ""),
              Response(503, None, "Service Unavailable"),
              Response(200, None, "<html>"),
              Response(200, None, JsonArrayText),
              Raised("ConnectError"),
              Raised("ReadTimeout") } }

\* the replies a downstream service may give to one POST
DownstreamReplies(h, post) == {e.resp : e \in DownstreamEvents(h, post)}

\* mutant: the loop goes on while a call is still in flight
MayStartStepNoAwait == pc \in {"loop", "awaiting"}

\* the engine issues a step only when it is not suspended in an await
MayStartStep == pc = "loop"

CurrentStep == workflow.steps[i + 1]

CallRecord(step, index, cid) ==
    [step |-> index, service |-> step.service, tool |-> step.tool,
     params |-> Get(step, "params"), correlation_id |-> cid]

\* mutant: an operation drops a registration
RegistryFrameDrops ==
    registry' = [ns \in DOMAIN registry \ {<<"docs">>} |-> registry[ns]]

\* what every operation does to SERVICES: it reads it at most
RegistryFrame == registry' = registry

\* no health aggregation runs
IdleHealth ==
    /\ aggregator = "mcp_host"
    /\ hpc = "off"
    /\ probe = <<>>
    /\ health_status = <<>>

\* none of the other tools and scripts runs
IdleOther ==
    /\ runs = <<>>
    /\ summary = None
    /\ files = <<>>
    /\ backups = {}
    /\ write_log = <<>>

Init ==
    /\ host \in {"http", "stdio"}
    /\ workflow \in Workflows
    /\ supplied \in SuppliedIds
    /\ pc = "pending"
    /\ i = 0
    /\ results = <<>>
    /\ correlation_id = None
    /\ uuid_count = 0
    /\ calls = <<>>
    /\ sent = <<>>
    /\ inflight = {}
    /\ ret = None
    /\ settled = <<>>
    /\ cancelled = FALSE
    /\ IdleHealth
    /\ registry = SERVICES
    /\ listed = None
    /\ IdleOther

\* execute_workflow_implementation / execute_workflow_tool_stdio, up to
\* the head of the loop
Start ==
    /\ pc = "pending"
    /\ uuid_count' = uuid_count + UuidsAtEntry(host)
    /\ correlation_id' = RunCorrelationId(host, supplied, Uuid(uuid_count + 1))
    /\ results' = <<>>
    /\ i' = 0
    /\ pc' = "loop"
    /\ UNCHANGED <<host, workflow, supplied, calls, sent, inflight, ret,
                   settled>>
    /\ RegistryFrame
    /\ UNCHANGED <<cancelled, listed, hvars, xvars>>

\* a step without service or tool: appended as an error, the run returns
StepMalformed ==
    /\ MayStartStep
    /\ i < Len(workflow.steps)
    /\ Malformed(host, CurrentStep)
    /\ results' = Append(results, MalformedEntry(host, CurrentStep, i))
    /\ ret' = Some(FailedReturn(host, workflow, i, MalformedResult(host, i),
                                results', correlation_id))
    /\ pc' = "returned"
    /\ UNCHANGED <<host, workflow, supplied, i, correlation_id, uuid_count,
                   calls, sent, inflight, settled>>
    /\ RegistryFrame
    /\ UNCHANGED <<cancelled, listed, hvars, xvars>>

\* mutant: the loop leaves out every other step
NextIndexSkips(index) == index + 2

\* enumerate: the index of the iteration after index
NextIndex(index) == index + 1

\* mutant: a failed step sends the loop round again on the same index
AfterErrorPcRetry == "loop"

\* where the engine is after a step's error: it has returned
AfterErrorPc == "returned"

\* what the loop does with the result call_tool returned
AfterResult(step_result) ==
    /\ results' = Append(results, StepEntry(host, CurrentStep, i, step_result))
    /\ IF IsErrorResult(step_result)
       THEN /\ ret' = Some(FailedReturn(host, workflow, i, step_result,
                                        results', correlation_id))
            /\ pc' = AfterErrorPc
            /\ i' = i
       ELSE /\ ret' = ret
            /\ pc' = "loop"
            /\ i' = NextIndex(i)

\* call_tool of the HTTP host on a namespace that is not in SERVICES:
\* it returns at once, nothing is posted
StepNotConfigured ==
    /\ MayStartStep
    /\ i < Len(workflow.steps)
    /\ ~Malformed(host, CurrentStep)
    /\ host = "http"
    /\ NotConfigured(CurrentStep.service)
    /\ calls' = Append(calls, CallRecord(CurrentStep, i, correlation_id))
    /\ AfterResult(NotConfiguredResult(CurrentStep.service))
    /\ UNCHANGED <<host, workflow, supplied, correlation_id, uuid_count,
                   sent, inflight, settled>>
    /\ RegistryFrame
    /\ UNCHANGED <<cancelled, listed, hvars, xvars>>

\* call_tool up to its await: the request is built and posted
StepSend ==
    /\ MayStartStep
    /\ i < Len(workflow.steps)
    /\ ~Malformed(host, CurrentStep)
    /\ host = "http" => ~NotConfigured(CurrentStep.service)
    /\ LET post == PostOf(host, i, CurrentStep.service, CurrentStep.tool,
                          Get(CurrentStep, "params"), correlation_id,
                          uuid_count)
       IN  /\ sent' = Append(sent, post)
           /\ inflight' = inflight \cup {post}
    /\ calls' = Append(calls, CallRecord(CurrentStep, i, correlation_id))
    /\ uuid_count' = uuid_count + UuidsPerCall(host)
    /\ pc' = "awaiting"
    /\ UNCHANGED <<host, workflow, supplied, i, results, correlation_id, ret,
                   settled>>
    /\ RegistryFrame
    /\ UNCHANGED <<cancelled, listed, hvars, xvars>>

\* the POST settles; call_tool returns and the loop goes on or returns
StepReceive ==
    /\ pc = "awaiting"
    /\ \E post \in inflight :
         \E e \in DownstreamEvents(host, post) :
            /\ inflight' = inflight \ {post}
            /\ settled' = Append(settled, [step |-> post.step,
                                           resp |-> e.resp,
                                           fault |-> e.fault])
            /\ IF Escapes(host, e.resp)
               THEN /\ pc' = "raised"
                    /\ UNCHANGED <<i, results, ret>>
               ELSE AfterResult(ResultOfResponse(host, e.resp))
    /\ UNCHANGED <<host, workflow, supplied, correlation_id, uuid_count,
                   calls, sent>>
    /\ RegistryFrame
    /\ UNCHANGED <<cancelled, listed, hvars, xvars>>

\* the task that runs the workflow is cancelled while call_tool awaits its
\* POST: CancelledError is raised at the await, the request is abandoned,
\* and the exception leaves call_tool and execute_workflow unless an except
\* clause takes it
Cancel ==
    /\ pc = "awaiting"
    /\ ~cancelled
    /\ cancelled' = TRUE
    /\ \E post \in inflight : inflight' = inflight \ {post}
    /\ IF ExceptClause("CancelledError") = ""
       THEN /\ pc' = "cancelled"
            /\ UNCHANGED <<i, results, ret>>
       ELSE AfterResult(UnexpectedErrorResult(host))
    /\ UNCHANGED <<host, workflow, supplied, correlation_id, uuid_count,
                   calls, sent, settled>>
    /\ RegistryFrame
    /\ UNCHANGED <<listed, hvars, xvars>>

\* the loop is over: every step succeeded
Complete ==
    /\ MayStartStep
    /\ i = Len(workflow.steps)
    /\ ret' = Some(CompletedReturn(host, workflow, results, correlation_id))
    /\ pc' = "returned"
    /\ UNCHANGED <<host, workflow, supplied, i, results, correlation_id,
                   uuid_count, calls, sent, inflight, settled>>
    /\ RegistryFrame
    /\ UNCHANGED <<cancelled, listed, hvars, xvars>>

Next ==
    \/ Start
    \/ StepMalformed
    \/ StepNotConfigured
    \/ StepSend
    \/ StepReceive
    \/ Cancel
    \/ Complete

Spec == Init /\ [][Next]_vars

(***************************************************************************)
(* Properties                                                              *)
(***************************************************************************)
Steps == workflow.steps

IsErr(entry) == entry.result.status = "error"

ErrorSeen == \E j \in 1..Len(results) : IsErr(results[j])

Returned == The(ret)

\* C1: fail-fast. Once some step's result is an error, no further
\* call_tool invocation and no further POST (a later step's or a
\* compensating one) is ever made, and nothing is left in flight.
C1_FailFast ==
    [][ErrorSeen => (calls' = calls /\ sent' = sent /\ inflight' = inflight
                     /\ inflight = {})]_vars

\* a run that failed at its second or a later dispatched step while steps
\* remained
C1_Witness ==
    /\ pc = "returned"
    /\ ErrorSeen
    /\ Len(sent) >= 2
    /\ Len(results) < Len(Steps)

\* C2: in every returned WorkflowResult, status is failed exactly when
\* some entry's result is an error; the error entry is then the last one,
\* it is the entry of the step the loop stopped at, and no entry lies
\* beyond the reported failing index.
C2_FailedIffError ==
    ret # None =>
        LET r == Returned IN
        /\ r.status \in {"completed", "failed"}
        /\ r.status = "failed" <=>
               \E j \in 1..Len(r.results) : IsErr(r.results[j])
        /\ r.status = "failed" =>
               /\ Len(r.results) = i + 1
               /\ Len(r.results) <= Len(Steps)
               /\ \A j \in 1..Len(r.results) :
                      /\ IsErr(r.results[j]) => j = Len(r.results)
                      /\ j - 1 <= r.step_failed_at

\* a failed result of three entries, the first two successful
C2_Witness ==
    /\ ret # None
    /\ Returned.status = "failed"
    /\ Len(Returned.results) = 3
    /\ Len(sent) = 3

\* C3: when the step at zero-based index k fails, the WorkflowResult
\* reports failure index k and holds exactly k + 1 entries.
C3_ReportsZeroBasedIndex ==
    (ret # None /\ Returned.status = "failed") =>
        /\ Returned.step_failed_at = i
        /\ Len(Returned.results) = i + 1

\* the step's dict has no "service" key or no "tool" key
Lacks(step) == "service" \notin DOMAIN step \/ "tool" \notin DOMAIN step

MalformedMessages ==
    { "step is missing 'service' or 'tool' key",
      "Malformed step: missing 'service' or 'tool'" }

\* what the engine does at a step k that lacks service or tool, the
\* reported index left aside: the run returns failed, the MalformedStep
\* error is the last entry, neither step k nor a later one is dispatched,
\* and the k earlier entries are the successful results of steps 0..k-1.
MalformedStepHalts ==
    \A k \in 0..(Len(Steps) - 1) :
        (Lacks(Steps[k + 1]) /\ Len(results) > k) =>
            /\ pc = "returned"
            /\ ret # None
            /\ Returned.status = "failed"
            /\ Returned.results = results
            /\ Returned.reason = results[k + 1].result
            /\ Len(results) = k + 1
            /\ IsErr(results[k + 1])
            /\ Head(results[k + 1].result.error) \in MalformedMessages
            /\ \A c \in 1..Len(calls) : calls[c].step < k
            /\ \A p \in 1..Len(sent) : sent[p].step < k
            /\ Len(calls) = k
            /\ \A j \in 1..k :
                   /\ ~IsErr(results[j])
                   /\ results[j].step_name =
                          Join(Steps[j].service, Steps[j].tool)

\* C4: a step that lacks service or tool yields a MalformedStep error as
\* the last entry and a failed WorkflowResult at that step's index, with
\* no dispatch of that step or a later one, the earlier results kept.
C4_MalformedStepFailsAtIndex ==
    /\ MalformedStepHalts
    /\ \A k \in 0..(Len(Steps) - 1) :
          (Lacks(Steps[k + 1]) /\ Len(results) > k) =>
              Returned.step_failed_at = k

\* C5: if every step succeeds the run returns completed with one entry
\* per step in definition order, each step posted once in that order; an
\* empty workflow returns completed with no entry and no dispatch.
C5_AllSucceedCompleted ==
    /\ (pc = "returned" /\ ~ErrorSeen) =>
           /\ ret # None
           /\ Returned.status = "completed"
           /\ Returned.results = results
           /\ Len(results) = Len(Steps)
           /\ Len(sent) = Len(Steps)
           /\ \A j \in 1..Len(Steps) :
                  /\ results[j].step_name =
                         Join(Steps[j].service, Steps[j].tool)
                  /\ results[j].result.status = "success"
                  /\ sent[j].step = j - 1
    /\ (pc = "returned" /\ Steps = <<>>) =>
           /\ Returned.status = "completed"
           /\ Returned.results = <<>>
           /\ calls = <<>>
           /\ sent = <<>>

\* a completed run of three steps
C5_Witness ==
    /\ ret # None
    /\ Returned.status = "completed"
    /\ Len(Returned.results) = 3
    /\ Len(sent) = 3

\* C6: strict sequentiality. At most one POST is in flight; a POST in
\* flight is the one of the step right after the results known so far,
\* every other POST made has its step's result in results (but for the POST
\* a cancellation abandoned), and the steps are posted in strictly
\* increasing order.
C6_Sequential ==
    /\ Cardinality(inflight) <= 1
    /\ inflight # {} => pc = "awaiting"
    /\ \A p \in 1..Len(sent) :
          IF sent[p] \in inflight
          THEN sent[p].step = Len(results)
          ELSE \/ sent[p].step < Len(results)
               \/ cancelled /\ sent[p].step = Len(results)
    /\ \A p, q \in 1..Len(sent) : p < q => sent[p].step < sent[q].step

\* the POST of a later step in flight, the earlier results known
C6_Witness ==
    /\ inflight # {}
    /\ Len(results) >= 2
    /\ \E post \in inflight : post.step = 2

\* the Envelope inside a POST
EnvelopeOf(post) == IF host = "http" THEN post.json.params ELSE post.json

\* d.get(k) on a dict kept as a set of pairs
PairGet(d, k) == { pair[2] : pair \in { q \in d : q[1] = k } }

\* context.correlation_id of the Envelope (None when there is no context
\* or no such key in it)
ContextCid(post) ==
    IF "context" \in DOMAIN EnvelopeOf(post)
    THEN PairGet(EnvelopeOf(post).context, "correlation_id")
    ELSE None

\* the correlation id the Envelope carries, in its context or at its top
CarriedCid(post) ==
    ContextCid(post) \cup Get(EnvelopeOf(post), "correlation_id")

\* C7: when the caller supplies no correlation id, one id is generated
\* for the run and every step's Envelope of the run carries that id.
C7_GeneratedIdOnEveryEnvelope ==
    supplied = None =>
        \A p \in 1..Len(sent) :
            /\ correlation_id # None
            /\ CarriedCid(sent[p]) = correlation_id

\* C8: a correlation id given to the run (a non-empty one) is handed
\* unchanged to every call_tool and is context.correlation_id of every
\* Envelope posted.
C8_GivenIdInEveryContext ==
    (pc # "pending" /\ Truthy(correlation_id)) =>
        /\ \A c \in 1..Len(calls) :
              calls[c].correlation_id = correlation_id
        /\ \A p \in 1..Len(sent) : ContextCid(sent[p]) = correlation_id

\* C9: a call_tool of the HTTP host on a namespace that is not a key of
\* SERVICES has its "not configured" error Result at once and no POST is
\* ever made for it.
C9_UnknownNamespaceNoRequest ==
    host = "http" =>
        \A c \in 1..Len(calls) :
            calls[c].service \notin DOMAIN SERVICES =>
                LET k == calls[c].step IN
                /\ \A p \in 1..Len(sent) : sent[p].step # k
                /\ inflight = {}
                /\ Len(results) = k + 1
                /\ results[k + 1].result.status = "error"
                /\ Head(results[k + 1].result.error) =
                       "Service namespace not configured"

\* a call on an unregistered namespace after a step that was posted
C9_Witness ==
    /\ host = "http"
    /\ Len(calls) >= 2
    /\ calls[Len(calls)].service \notin DOMAIN SERVICES
    /\ Len(sent) = Len(calls) - 1

IsPrefix(a, b) == Len(a) <= Len(b) /\ SubSeq(b, 1, Len(a)) = a

\* the longest registered namespace that is a dotted prefix of the
\* qualified name q and leaves a tool name (Optional)
LongestRegisteredPrefix(q) ==
    LET cands == { ns \in DOMAIN SERVICES :
                     IsPrefix(ns, q) /\ Len(ns) < Len(q) }
    IN  { ns \in cands : \A m \in cands : Len(m) <= Len(ns) }

\* the registered namespace whose endpoint the call was posted to (Optional)
PostedNamespace(call) ==
    { ns \in DOMAIN SERVICES :
        \E p \in 1..Len(sent) :
            /\ sent[p].step = call.step
            /\ sent[p].url = Url(SERVICES[ns].base, "/messages/") }

\* C10 as stated: the dispatcher of the HTTP host sends a call to the
\* longest registered namespace that is a dotted prefix of its qualified
\* tool name.
C10_LongestPrefixResolution ==
    host = "http" =>
        \A c \in 1..Len(calls) :
            PostedNamespace(calls[c]) =
                LongestRegisteredPrefix(Join(calls[c].service, calls[c].tool))

\* C10 amended: no qualified name is split. The HTTP host looks the
\* supplied namespace up by exact match: a registered one is posted to
\* its own endpoint with tool_name namespace.tool, the supplied tool being
\* the remainder; any other gets the "not configured" error and no POST,
\* even when a registered namespace is a dotted prefix of the qualified
\* name.  The STDIO host resolves nothing and posts service.tool to the
\* orchestrator's endpoint.
C10_ExactNamespaceResolution ==
    \A c \in 1..Len(calls) :
        LET call == calls[c]
            posts == { p \in 1..Len(sent) : sent[p].step = call.step }
        IN  IF host = "stdio"
            THEN \E p \in posts :
                    /\ sent[p].url = StdioBaseUrl
                    /\ EnvelopeOf(sent[p]).tool_name =
                           Join(call.service, call.tool)
            ELSE IF call.service \in DOMAIN SERVICES
            THEN /\ PostedNamespace(call) = Some(call.service)
                 /\ \E p \in posts :
                       LET name == EnvelopeOf(sent[p]).tool_name IN
                       /\ IsPrefix(call.service, name)
                       /\ SubSeq(name, Len(call.service) + 1, Len(name)) =
                              call.tool
            ELSE /\ posts = {}
                 /\ IsErr(results[call.step + 1])
                 /\ Head(results[call.step + 1].result.error) =
                        "Service namespace not configured"

\* the dotted namespace ai.models resolved to itself, and a call under the
\* unregistered namespace ai, of which ai.models.generate is also the
\* qualified name, refused
C10_Witness ==
    /\ host = "http"
    /\ \E c \in 1..Len(calls) :
          /\ calls[c].service = <<"ai", "models">>
          /\ PostedNamespace(calls[c]) = Some(<<"ai", "models">>)
    /\ \E c \in 1..Len(calls) :
          /\ calls[c].service = <<"ai">>
          /\ LongestRegisteredPrefix(Join(calls[c].service, calls[c].tool))
                 = Some(<<"ai", "models">>)
          /\ PostedNamespace(calls[c]) = None

(***************************************************************************)
(* The dispatcher: what call_tool makes of each outcome of its POST        *)
(***************************************************************************)
\* the Result call_tool returned for the k-th POST that settled
ResultOfSettled(k) == results[settled[k].step + 1].result

ErrorKind(result) == result.error[1]

\* the upstream body as the except clause of HTTPStatusError keeps it
UpstreamBody(h, resp) ==
    IF resp.json # None THEN resp.json
    ELSE IF h = "http" THEN Some([error_message |-> resp.text])
    ELSE Some([error |-> resp.text])

HasBody(k) ==
    /\ settled[k].resp.exc = ""
    /\ IsSuccessCode(settled[k].resp.status_code)
    /\ settled[k].resp.json # None

\* the Envelope a host decodes out of a body: the HTTP host looks inside a
\* JSON-RPC response, the STDIO host takes the body as it is
EnvelopeDecoded(h, body) ==
    IF h = "http" /\ {"jsonrpc", "result"} \subseteq DOMAIN body
    THEN body.result
    ELSE body

ProtocolMismatchMessages ==
    { <<"Unexpected MCP response type from downstream service">>,
      <<"Unexpected MCP response type">> }

\* C13: a decoded Envelope gives success, with the Envelope's result, exactly
\* when its type is tool_result; an error Result with the Envelope's error
\* message and the error as details when its type is tool_error; the
\* unexpected-type error Result for every other type or none.
C13_DecodeByType ==
    \A k \in 1..Len(settled) :
       HasBody(k) =>
          LET E == EnvelopeDecoded(host, The(settled[k].resp.json))
              r == ResultOfSettled(k)
          IN  /\ r.status = "success" <=> Get(E, "type") = Some("tool_result")
              /\ r.status = "success" => r.result = Some(E.result)
              /\ Get(E, "type") = Some("tool_error")
                    => /\ r.status = "error"
                       /\ r.error = E.error.message
                       /\ r.details = Some(E.error)
              /\ Get(E, "type") \notin {Some("tool_result"), Some("tool_error")}
                    => /\ r.status = "error"
                       /\ r.error \in ProtocolMismatchMessages

\* after a success, an Envelope of another type was decoded as a mismatch
C13_Witness ==
    /\ Len(settled) > 1
    /\ HasBody(Len(settled))
    /\ Get(EnvelopeDecoded(host, The(settled[Len(settled)].resp.json)),
           "type") = Some("tool_call")
    /\ ResultOfSettled(1).status = "success"
    /\ ResultOfSettled(Len(settled)).error \in ProtocolMismatchMessages

\* the body of the k-th settled POST is a JSON-RPC response holding an
\* Envelope in its result field
IsWrapped(k) ==
    /\ HasBody(k)
    /\ {"jsonrpc", "result"} \subseteq DOMAIN The(settled[k].resp.json)

\* what the host returns for the same Envelope sent bare
BareResult(k) ==
    ResultOfResponse(host,
        Response(200, Some(The(settled[k].resp.json).result), ""))

\* C14: for the HTTP host, the Result of a body that wraps an Envelope E
\* in a JSON-RPC response is the Result of the body that is E itself,
\* whatever the type of E.
C14_WrapperTransparent ==
    \A k \in 1..Len(settled) :
       (host = "http" /\ IsWrapped(k)) => ResultOfSettled(k) = BareResult(k)

\* the same for the Envelopes of the two known types only
WrapperTransparentForKnownTypes ==
    \A k \in 1..Len(settled) :
       (/\ host = "http"
        /\ IsWrapped(k)
        /\ The(settled[k].resp.json).result.type
              \in {"tool_result", "tool_error"})
          => ResultOfSettled(k) = BareResult(k)

\* the call_tool invocation and the POST of the step with loop index index
CallOfStep(index) ==
    calls[CHOOSE j \in 1..Len(calls) : calls[j].step = index]

PostOfStep(index) ==
    sent[CHOOSE p \in 1..Len(sent) : sent[p].step = index]

\* the k-th settled POST of the HTTP host was answered by the direct tool
\* call endpoint with a result-typed or an error-typed Envelope
IsHandlerReply(k) ==
    /\ host = "http"
    /\ IsWrapped(k)
    /\ The(settled[k].resp.json).result.type \in {"tool_result", "tool_error"}

ReplyEnvelope(k) == The(settled[k].resp.json).result

\* C15 as stated: from the reply to an encoded and wrapped call, unwrap and
\* decode give back the call's tool, its params and its correlation id.
C15_RoundTrip ==
    \A k \in 1..Len(settled) :
       IsHandlerReply(k) =>
          LET c == CallOfStep(settled[k].step)
              E == ReplyEnvelope(k)
          IN  /\ Get(E, "tool_name") = Some(Join(c.service, c.tool))
              /\ Get(E, "parameters") = Some(ParamsOrEmpty(c.params))
              /\ PairGet(E.context, "correlation_id") = c.correlation_id

\* C15 amended: the request carries the qualified tool name, the params
\* ({} for none) and, in its context, a non-empty correlation id; the reply
\* Envelope, result-typed or error-typed, echoes the request's Envelope id,
\* the qualified tool name and the context, and no parameters; the decoded
\* Result keeps the Envelope id and status, result or error, and neither
\* tool, params nor correlation id.
C15_ReplyEchoesCall ==
    \A k \in 1..Len(settled) :
       IsHandlerReply(k) =>
          LET c   == CallOfStep(settled[k].step)
              req == PostOfStep(settled[k].step).json.params
              E   == ReplyEnvelope(k)
              r   == ResultOfSettled(k)
          IN  /\ req.tool_name = Join(c.service, c.tool)
              /\ req.parameters = ParamsOrEmpty(c.params)
              /\ PairGet(req.context, "correlation_id")
                    = IF Truthy(c.correlation_id) THEN c.correlation_id
                      ELSE None
              /\ E.id = req.id
              /\ E.tool_name = Join(c.service, c.tool)
              /\ E.context = req.context
              /\ "parameters" \notin DOMAIN E
              /\ r.id = Some(req.id)
              /\ DOMAIN r \subseteq {"status", "result", "error", "details",
                                     "id"}

\* an error-typed reply to a call with params and a correlation id has been
\* decoded, after a result-typed one
C15_Witness ==
    /\ Len(settled) > 1
    /\ IsHandlerReply(1) /\ ReplyEnvelope(1).type = "tool_result"
    /\ IsHandlerReply(Len(settled))
    /\ ReplyEnvelope(Len(settled)).type = "tool_error"
    /\ CallOfStep(settled[Len(settled)].step).params # None
    /\ Truthy(correlation_id)

\* C16: dispatch retries nothing.  No step is handed to call_tool twice and
\* no step is posted twice, whatever its outcome; a call_tool invocation has
\* at most one POST, and a POST settles once.
C16_NoRetry ==
    /\ \A c, d \in 1..Len(calls) : c # d => calls[c].step # calls[d].step
    /\ \A p, q \in 1..Len(sent) : p # q => sent[p].step # sent[q].step
    /\ \A p \in 1..Len(sent) :
          \E c \in 1..Len(calls) : calls[c].step = sent[p].step
    /\ \A k, l \in 1..Len(settled) :
          k # l => settled[k].step # settled[l].step
    /\ Len(settled) <= Len(sent)

\* a run failed on a transport fault of its second POST and returned with
\* two POSTs issued in all
C16_Witness ==
    /\ pc = "returned"
    /\ Len(sent) = 2
    /\ Len(settled) = 2
    /\ settled[2].resp.exc = "ConnectError"
    /\ ret # None /\ The(ret).status = "failed"

\* C17: when a tool handler raises, the endpoint that called it answers
\* with an error-typed Envelope, and the caller gets the error Result
\* decoded from that Envelope.
C17_HandlerFaultBecomesErrorEnvelope ==
    \A k \in 1..Len(settled) :
       settled[k].fault
          => /\ IsWrapped(k)
             /\ ReplyEnvelope(k).type = "tool_error"
             /\ ResultOfSettled(k).status = "error"
             /\ ResultOfSettled(k).error = ReplyEnvelope(k).error.message

\* the part that holds: a handler's fault always reaches the caller as an
\* error Result, and never as an exception
HandlerFaultYieldsErrorResult ==
    /\ pc # "raised"
    /\ \A k \in 1..Len(settled) :
          settled[k].fault => ResultOfSettled(k).status = "error"

(***************************************************************************)
(* The health aggregations: check_system_health_implementation of          *)
(* mcp_host.py ("mcp_host"), check_health of mcp_host_stdio_claude.py      *)
(* ("mcp_host_stdio") and monitor_all_services of health_monitor.py        *)
(* ("health_monitor").  A probe is the GET of one service's /health; its   *)
(* outcome is a response as above.                                         *)
(***************************************************************************)
\* Number of registry entries an aggregation probes in the model.
MaxProbes == 3

Aggregators == {"mcp_host", "mcp_host_stdio", "health_monitor"}

\* the keys of each module's SERVICES, in the order of the dict;
\* check_health.py ("check_health") has the keys of health_monitor.py
ServiceOrder(agg) ==
    IF agg = "mcp_host"
    THEN << <<"docs">>, <<"cmdb">>, <<"secrets">>, <<"ai", "models">>,
            <<"vector">> >>
    ELSE IF agg = "mcp_host_stdio"
    THEN << <<"os", "linux">>, <<"infra", "k8s">>, <<"docs">>, <<"cmdb">>,
            <<"secrets">>, <<"trading", "freqtrade", "knowledge">>,
            <<"ai", "models">>, <<"crypto">>, <<"vector">> >>
    ELSE << <<"00_master_mcp">>, <<"01_linux_cli_mcp">>, <<"08_k8s_mcp">>,
            <<"12_cmdb_mcp">>, <<"13_secrets_mcp">>, <<"14_aider_mcp">>,
            <<"15_freqtrade_mcp">>, <<"16_ai_models_mcp">> >>

\* the entries the loop goes over
Probed(agg) ==
    SubSeq(ServiceOrder(agg), 1,
           IF Len(ServiceOrder(agg)) < MaxProbes
           THEN Len(ServiceOrder(agg)) ELSE MaxProbes)

NoResponse == Raised("")

\* what a GET of /health may end in
ProbeOutcomes ==
    { Response(200, Some([status |-> "ok"]), ""),
      Response(200, None, "OK"),
      Response(503, None, "Service Unavailable"),
      Raised("ConnectError"),
      Raised("ReadTimeout"),
      Raised("ReadError") }

\* the subclasses of httpx.TimeoutException the model raises
TimeoutExceptions == {"ReadTimeout"}

\* mcp_host.py 296-305: the entry of one namespace.  response.json() of a
\* 200 answer is inside the try
SystemHealthEntry(resp) ==
    IF resp.exc # ""
    THEN [status |-> "unreachable", error |-> resp.exc]
    ELSE IF resp.status_code = 200
    THEN IF resp.json = None
         THEN [status |-> "unreachable", error |-> "JSONDecodeError"]
         ELSE [status |-> "healthy", code |-> resp.status_code,
               details |-> resp.json]
    ELSE [status |-> "unhealthy", code |-> resp.status_code,
          details |-> {resp.text}]

\* mcp_host_stdio_claude.py 178-190
CheckHealthEntry(resp) ==
    IF resp.exc # ""
    THEN [status |-> "unreachable", error |-> resp.exc]
    ELSE [status |-> IF resp.status_code = 200 THEN "healthy"
                     ELSE "unhealthy",
          code |-> resp.status_code]

\* health_monitor.py 23-71
check_service_health(service_id, resp) ==
    IF resp.exc = "ConnectError"
    THEN [service |-> service_id, status |-> "offline",
          error |-> "Connection refused"]
    ELSE IF resp.exc \in TimeoutExceptions
    THEN [service |-> service_id, status |-> "timeout",
          error |-> "Request timed out"]
    ELSE IF resp.exc # ""
    THEN [service |-> service_id, status |-> "error", error |-> resp.exc]
    ELSE IF resp.status_code = 200
    THEN [service |-> service_id, status |-> "healthy",
          details |-> resp.json]
    ELSE [service |-> service_id, status |-> "unhealthy",
          status_code |-> resp.status_code]

\* the word the summary of check_health.py looks for, letter by letter
Healthy == <<"h", "e", "a", "l", "t", "h", "y">>

\* the status strings of check_health.py as sequences of characters; the
\* leading emoji is written as one ASCII character, the status code and the
\* text of an exception as one element each
StatusHealthy == <<"+", " ">> \o Healthy

StatusUnhealthy(status_code) ==
    <<"!", " ", " ", "u", "n">> \o Healthy
        \o <<" ", "(", "H", "T", "T", "P", " ", ToString(status_code), ")">>

StatusOffline == <<"x", " ", "o", "f", "f", "l", "i", "n", "e">>

StatusError(exc) ==
    <<"x", " ", "e", "r", "r", "o", "r", ":", " ", exc>>

\* config["port"] of the services check_health.py probes
PortOf(service_id) ==
    IF service_id = <<"00_master_mcp">> THEN 8080
    ELSE IF service_id = <<"01_linux_cli_mcp">> THEN 8001
    ELSE IF service_id = <<"08_k8s_mcp">> THEN 8008
    ELSE IF service_id = <<"12_cmdb_mcp">> THEN 8012
    ELSE IF service_id = <<"13_secrets_mcp">> THEN 8013
    ELSE IF service_id = <<"14_aider_mcp">> THEN 8014
    ELSE IF service_id = <<"15_freqtrade_mcp">> THEN 8015
    ELSE 8016

\* check_health.py 21-56: the dict check_service_health returns
check_health_entry(service_id, resp) ==
    [service |-> service_id,
     port    |-> PortOf(service_id),
     status  |-> IF resp.exc = "ConnectError" THEN StatusOffline
                 ELSE IF resp.exc # "" THEN StatusError(resp.exc)
                 ELSE IF resp.status_code = 200 THEN StatusHealthy
                 ELSE StatusUnhealthy(resp.status_code)]

\* sub in s of Python, on sequences of characters
Contains(sub, s) ==
    \E k \in 1..(Len(s) - Len(sub) + 1) :
        SubSeq(s, k, k + Len(sub) - 1) = sub

\* check_health.py 74-75: healthy and total of the summary line
SummaryOf(entries) ==
    [healthy |-> Cardinality({ k \in 1..Len(entries) :
                                  Contains(Healthy, entries[k].status) }),
     total   |-> Len(entries)]

ProbeEntry(agg, namespace, resp) ==
    IF agg = "mcp_host" THEN SystemHealthEntry(resp)
    ELSE IF agg = "mcp_host_stdio" THEN CheckHealthEntry(resp)
    ELSE IF agg = "health_monitor" THEN check_service_health(namespace, resp)
    ELSE check_health_entry(namespace, resp)

\* mutant: the assignment overwrites the entry written last
DictSetLast(d, key, value) ==
    IF d = <<>> THEN <<<<key, value>>>>
    ELSE [d EXCEPT ![Len(d)] = <<key, value>>]

\* d[key] = value on a dict kept as the sequence of its items
DictSet(d, key, value) ==
    IF \E j \in 1..Len(d) : d[j][1] = key
    THEN [j \in 1..Len(d) |->
            IF d[j][1] = key THEN <<key, value>> ELSE d[j]]
    ELSE Append(d, <<key, value>>)

\* the two hosts probe inside a for loop, one await after the other;
\* health_monitor.py hands all its probes to asyncio.gather
Sequential(agg) == agg \in {"mcp_host", "mcp_host_stdio"}

ProbeIdle == [state |-> "idle", resp |-> NoResponse]

ProbeInflight == [state |-> "inflight", resp |-> NoResponse]

InitHealth ==
    /\ aggregator \in Aggregators
    /\ hpc = "pending"
    /\ probe = [k \in 1..Len(Probed(aggregator)) |-> ProbeIdle]
    /\ health_status = <<>>
    /\ host = "http"
    /\ workflow = [name |-> <<"wf">>, steps |-> <<>>]
    /\ supplied = None
    /\ pc = "off"
    /\ i = 0
    /\ results = <<>>
    /\ correlation_id = None
    /\ uuid_count = 0
    /\ calls = <<>>
    /\ sent = <<>>
    /\ inflight = {}
    /\ ret = None
    /\ settled = <<>>
    /\ cancelled = FALSE
    /\ registry = SERVICES
    /\ listed = None
    /\ IdleOther

\* the aggregation is entered: the hosts reach the head of their loop,
\* monitor_all_services builds its tasks and awaits gather, which starts
\* every probe before any response is looked at
HealthStart ==
    /\ hpc = "pending"
    /\ hpc' = "running"
    /\ probe' = IF Sequential(aggregator) THEN probe
                ELSE [k \in DOMAIN probe |-> ProbeInflight]
    /\ UNCHANGED <<aggregator, health_status>>
    /\ RegistryFrame
    /\ UNCHANGED <<wvars, listed, xvars>>

\* one iteration of a host's loop up to its await: the GET of the next
\* namespace is issued
ProbeSend ==
    /\ hpc = "running"
    /\ Sequential(aggregator)
    /\ \A k \in DOMAIN probe : probe[k].state # "inflight"
    /\ \E k \in DOMAIN probe :
          /\ probe[k].state = "idle"
          /\ \A j \in 1..(k - 1) : probe[j].state = "settled"
          /\ probe' = [probe EXCEPT ![k] = ProbeInflight]
    /\ UNCHANGED <<aggregator, hpc, health_status>>
    /\ RegistryFrame
    /\ UNCHANGED <<wvars, listed, xvars>>

\* a GET settles; a host writes the namespace's entry at once, a task of
\* health_monitor.py returns its entry to gather
ProbeSettle ==
    /\ hpc = "running"
    /\ \E k \in DOMAIN probe :
          /\ probe[k].state = "inflight"
          /\ \E resp \in ProbeOutcomes :
                /\ probe' = [probe EXCEPT
                               ![k] = [state |-> "settled", resp |-> resp]]
                /\ health_status' =
                      IF Sequential(aggregator)
                      THEN DictSet(health_status, Probed(aggregator)[k],
                                   ProbeEntry(aggregator,
                                              Probed(aggregator)[k], resp))
                      ELSE health_status
    /\ UNCHANGED <<aggregator, hpc>>
    /\ RegistryFrame
    /\ UNCHANGED <<wvars, listed, xvars>>

\* every probe has settled: the loop is over, gather returns the list of
\* its tasks' results in the order of the tasks
HealthReturn ==
    /\ hpc = "running"
    /\ \A k \in DOMAIN probe : probe[k].state = "settled"
    /\ hpc' = "returned"
    /\ health_status' =
          IF Sequential(aggregator) THEN health_status
          ELSE [k \in DOMAIN probe |->
                  <<Probed(aggregator)[k],
                    ProbeEntry(aggregator, Probed(aggregator)[k],
                               probe[k].resp)>>]
    /\ UNCHANGED <<aggregator, probe>>
    /\ RegistryFrame
    /\ UNCHANGED <<wvars, listed, xvars>>

NextHealth ==
    \/ HealthStart
    \/ ProbeSend
    \/ ProbeSettle
    \/ HealthReturn

SpecHealth == InitHealth /\ [][NextHealth]_vars

(***************************************************************************)
(* Properties of the health aggregations                                   *)
(***************************************************************************)
\* C18: the aggregation issues its probes concurrently: no probe is still
\* unstarted while another probe is awaited, so that no start waits for
\* another probe to settle.
C18_ProbesConcurrent ==
    \A k, m \in DOMAIN probe :
       probe[m].state = "inflight" => probe[k].state # "idle"

\* the same for monitor_all_services alone, where it holds
GatherProbesConcurrent ==
    aggregator = "health_monitor" => C18_ProbesConcurrent

\* the status the k-th entry of the report has
StatusOfEntry(k) == health_status[k][2].status

\* C19: once the aggregation has returned, the report has one entry for
\* each registered namespace and no other, and the status of each entry is
\* the status its own probe's outcome gives, whatever the other probes
\* ended in.
C19_OneEntryPerNamespace ==
    hpc = "returned" =>
       /\ Len(health_status) = Len(Probed(aggregator))
       /\ \A k \in 1..Len(health_status) :
             /\ health_status[k][1] = Probed(aggregator)[k]
             /\ StatusOfEntry(k)
                   = ProbeEntry(aggregator, Probed(aggregator)[k],
                                probe[k].resp).status
       /\ \A k, m \in 1..Len(health_status) :
             probe[k].resp = probe[m].resp
                => StatusOfEntry(k) = StatusOfEntry(m)

\* a report is complete in which one probe timed out, one could not
\* connect and one was answered 200
C19_Witness ==
    /\ hpc = "returned"
    /\ Len(health_status) = MaxProbes
    /\ \E k \in DOMAIN probe : probe[k].resp.exc = "ReadTimeout"
    /\ \E k \in DOMAIN probe : probe[k].resp.exc = "ConnectError"
    /\ \E k \in DOMAIN probe :
          probe[k].resp.status_code = 200 /\ StatusOfEntry(k) = "healthy"

\* C20: the status of a probe is healthy, unhealthy or unreachable: healthy
\* for an answer with HTTP 200, unhealthy for an answer with another status
\* code, unreachable for a connection failure or a timeout.
C20_ProbeStatus ==
    \A k \in 1..Len(health_status) :
       LET resp == probe[k].resp
       IN  /\ StatusOfEntry(k) \in {"healthy", "unhealthy", "unreachable"}
           /\ (resp.exc = "" /\ resp.status_code = 200)
                 => StatusOfEntry(k) = "healthy"
           /\ (resp.exc = "" /\ resp.status_code # 200)
                 => StatusOfEntry(k) = "unhealthy"
           /\ resp.exc \in {"ConnectError", "ReadTimeout"}
                 => StatusOfEntry(k) = "unreachable"

\* the same for check_health of the STDIO host alone, where it holds
StdioProbeStatus ==
    aggregator = "mcp_host_stdio" => C20_ProbeStatus

(***************************************************************************)
(* Further properties of the dispatcher and the engine                     *)
(***************************************************************************)
\* the address the registered endpoint alone gives: the message path next
\* to an endpoint ending in /sse, under any other endpoint
AddressOfEndpoint(endpoint) ==
    IF endpoint.path = "/sse"
    THEN Url(endpoint.base, "/messages/")
    ELSE Url(endpoint.base \o endpoint.path, "/messages/")

C22_InflightCallSettles ==
    (cancelled /\ pc # "awaiting")
       => /\ Len(settled) = Len(sent)
          /\ sent[Len(sent)].step = i
          /\ \A k \in 1..Len(results) : ~IsErr(results[k])

\* C22 amended: the cancellation ends the run at the await of the call in
\* flight.  That call is abandoned: it has no settlement and no entry, and
\* the run returns nothing.  The step in flight is the last one called and
\* posted, and the entries of the steps before it stay as they were, all
\* successes.
C22_CancelAbandonsCall ==
    cancelled
       => /\ pc = "cancelled"
          /\ ret = None
          /\ inflight = {}
          /\ Len(results) = i
          /\ calls[Len(calls)].step = i
          /\ sent[Len(sent)].step = i
          /\ \A k \in 1..Len(settled) : settled[k].step < i
          /\ \A k \in 1..Len(results) : ~IsErr(results[k])

\* a run was cancelled during its second step
C22_Witness ==
    /\ cancelled
    /\ pc = "cancelled"
    /\ i = 1
    /\ Len(sent) = 2
    /\ Len(results) = 1

(***************************************************************************)
(* Two workflow runs on the one engine and client of the HTTP host:        *)
(* orchestrator_workflow_engine.execute_workflow invoked twice, the two    *)
(* coroutines interleaving at their awaits.  uuid_count and sent are        *)
(* shared; runs[r] holds the locals of invocation r.                       *)
(***************************************************************************)
\* Longest workflow of a concurrent run.
MaxRunSteps == 2

RunIds == {1, 2}

\* the steps of the concurrent runs: a good one, one on an unregistered
\* namespace, one without a tool
RunStepKinds ==
    { [service |-> <<"docs">>, tool |-> <<"search">>,
       params |-> {<<"query", "tla">>}],
      [service |-> <<"ai">>, tool |-> <<"models", "generate">>],
      [service |-> <<"docs">>] }

RunWorkflows(r) ==
    { [name |-> <<"wf" \o ToString(r)>>, steps |-> st] :
        st \in UNION { [1..n -> RunStepKinds] : n \in 1..MaxRunSteps } }

\* the correlation id run r is invoked with
RunCid(r) == Some(<<"c" \o ToString(r)>>)

\* what settles a POST of a concurrent run
RunEvents(post) ==
    { e \in DownstreamEvents("http", post) :
        \/ e.resp.exc = "ConnectError"
        \/ /\ e.resp.exc = ""
           /\ e.resp.status_code = 200
           /\ e.resp.json # None
           /\ "jsonrpc" \in DOMAIN The(e.resp.json)
           /\ The(e.resp.json).result.type \in {"tool_result", "tool_error"} }

\* mutant: results is an attribute of the engine, shared by its invocations
ResultsOwnerShared(r) == 1

\* `results = []` is a local of the invocation: each run has its own
ResultsOwner(r) == r

ResultsOf(r) == runs[ResultsOwner(r)].results

RunStep(r) == runs[r].workflow.steps[runs[r].i + 1]

InitConcurrent ==
    /\ runs \in [RunIds -> UNION { { [workflow |-> wf,
                                      correlation_id |-> RunCid(r),
                                      pc |-> "pending", i |-> 0,
                                      results |-> <<>>, ret |-> None,
                                      inflight |-> None] :
                                       wf \in RunWorkflows(r) } :
                                    r \in RunIds }]
    /\ \A r \in RunIds : runs[r].correlation_id = RunCid(r)
    /\ host = "http"
    /\ workflow = [name |-> <<"wf">>, steps |-> <<>>]
    /\ supplied = None
    /\ pc = "off"
    /\ i = 0
    /\ results = <<>>
    /\ correlation_id = None
    /\ uuid_count = 0
    /\ calls = <<>>
    /\ sent = <<>>
    /\ inflight = {}
    /\ ret = None
    /\ settled = <<>>
    /\ cancelled = FALSE
    /\ IdleHealth
    /\ registry = SERVICES
    /\ listed = None
    /\ summary = None
    /\ files = <<>>
    /\ backups = {}
    /\ write_log = <<>>

\* what no action of the concurrent runs changes
ConcurrentFrame ==
    /\ RegistryFrame
    /\ UNCHANGED <<host, workflow, supplied, pc, i, results, correlation_id,
                   calls, inflight, ret, settled, cancelled>>
    /\ UNCHANGED <<listed, hvars, summary, files, backups, write_log>>

\* runs after invocation r appended entry to its results and, when failed
\* is set, returned
RunsAfterEntry(r, entry, failed) ==
    LET appended == [runs EXCEPT ![ResultsOwner(r)].results =
                                     Append(@, entry)]
        res      == appended[ResultsOwner(r)].results
    IN  IF failed
        THEN [appended EXCEPT
                ![r].pc = "returned",
                ![r].inflight = None,
                ![r].ret = Some(FailedReturn("http", runs[r].workflow,
                                             runs[r].i, entry.result, res,
                                             runs[r].correlation_id))]
        ELSE [appended EXCEPT ![r].pc = "loop", ![r].inflight = None,
                              ![r].i = @ + 1]

\* execute_workflow is entered: results = []
RunStart ==
    \E r \in RunIds :
       /\ runs[r].pc = "pending"
       /\ runs' = [[runs EXCEPT ![ResultsOwner(r)].results = <<>>]
                      EXCEPT ![r].pc = "loop"]
       /\ UNCHANGED <<uuid_count, sent>>
       /\ ConcurrentFrame

RunMalformed ==
    \E r \in RunIds :
       /\ runs[r].pc = "loop"
       /\ runs[r].i < Len(runs[r].workflow.steps)
       /\ Malformed("http", RunStep(r))
       /\ runs' = RunsAfterEntry(r, MalformedEntry("http", RunStep(r),
                                                   runs[r].i), TRUE)
       /\ UNCHANGED <<uuid_count, sent>>
       /\ ConcurrentFrame

RunNotConfigured ==
    \E r \in RunIds :
       /\ runs[r].pc = "loop"
       /\ runs[r].i < Len(runs[r].workflow.steps)
       /\ ~Malformed("http", RunStep(r))
       /\ NotConfigured(RunStep(r).service)
       /\ runs' = RunsAfterEntry(r,
                     StepEntry("http", RunStep(r), runs[r].i,
                               NotConfiguredResult(RunStep(r).service)),
                     TRUE)
       /\ UNCHANGED <<uuid_count, sent>>
       /\ ConcurrentFrame

RunSend ==
    \E r \in RunIds :
       /\ runs[r].pc = "loop"
       /\ runs[r].i < Len(runs[r].workflow.steps)
       /\ ~Malformed("http", RunStep(r))
       /\ ~NotConfigured(RunStep(r).service)
       /\ LET post == PostOf("http", runs[r].i, RunStep(r).service,
                             RunStep(r).tool, Get(RunStep(r), "params"),
                             runs[r].correlation_id, uuid_count)
          IN  /\ sent' = Append(sent, [run |-> r, step |-> post.step,
                                       url |-> post.url, json |-> post.json])
              /\ runs' = [runs EXCEPT ![r].pc = "awaiting",
                                      ![r].inflight = Some(post)]
       /\ uuid_count' = uuid_count + UuidsPerCall("http")
       /\ ConcurrentFrame

RunReceive ==
    \E r \in RunIds :
       /\ runs[r].pc = "awaiting"
       /\ \E e \in RunEvents(The(runs[r].inflight)) :
             LET step_result == ResultOfResponse("http", e.resp)
             IN  runs' = RunsAfterEntry(r,
                            StepEntry("http", RunStep(r), runs[r].i,
                                      step_result),
                            IsErrorResult(step_result))
       /\ UNCHANGED <<uuid_count, sent>>
       /\ ConcurrentFrame

RunComplete ==
    \E r \in RunIds :
       /\ runs[r].pc = "loop"
       /\ runs[r].i = Len(runs[r].workflow.steps)
       /\ runs' = [runs EXCEPT
                     ![r].pc = "returned",
                     ![r].ret = Some(CompletedReturn("http",
                                       runs[r].workflow, ResultsOf(r),
                                       runs[r].correlation_id))]
       /\ UNCHANGED <<uuid_count, sent>>
       /\ ConcurrentFrame

NextConcurrent ==
    \/ RunStart
    \/ RunMalformed
    \/ RunNotConfigured
    \/ RunSend
    \/ RunReceive
    \/ RunComplete

SpecConcurrent == InitConcurrent /\ [][NextConcurrent]_vars

\* the POST run r made for its step of loop index index
RunPostOf(r, index) ==
    sent[CHOOSE p \in 1..Len(sent) :
            sent[p].run = r /\ sent[p].step = index]

\* the name the entry of step has in a WorkflowResult of the HTTP host
EntryNameOf(step) ==
    Join(OrDefault(Get(step, "service"), <<"unknown_service">>),
         OrDefault(Get(step, "tool"), <<"unknown_tool">>))

\* C23: of two runs interleaving on one engine and client, each returns a
\* WorkflowResult with its own name and correlation id, whose entries are
\* those of its own steps in its own order, ending at its own first error;
\* a success entry holds the Result decoded from the reply to this run's
\* own POST of that step, which carried this run's correlation id.  While
\* a run is under way its results hold one entry per step it has done.
C23_RunsIsolated ==
    \A r \in RunIds :
       /\ runs[r].pc \in {"loop", "awaiting"}
             => Len(runs[r].results) = runs[r].i
       /\ runs[r].pc = "returned" =>
             LET R == The(runs[r].ret)
                 W == runs[r].workflow
             IN  /\ R.workflow_name = W.name
                 /\ R.correlation_id = runs[r].correlation_id
                 /\ Len(R.results) <= Len(W.steps)
                 /\ R.status = "completed"
                       => Len(R.results) = Len(W.steps)
                 /\ R.status = "failed"
                       => /\ Len(R.results) = runs[r].i + 1
                          /\ R.reason = R.results[Len(R.results)].result
                 /\ \A k \in 1..Len(R.results) :
                       /\ R.results[k].step_name = EntryNameOf(W.steps[k])
                       /\ R.results[k].description = k
                       /\ R.results[k].result.status = "error"
                             => k = Len(R.results) /\ R.status = "failed"
                       /\ R.results[k].result.status = "success"
                             => /\ R.results[k].result.id
                                     = Some(RunPostOf(r, k - 1).json.params.id)
                                /\ PairGet(RunPostOf(r, k - 1).json.params
                                              .context, "correlation_id")
                                     = runs[r].correlation_id

\* both runs completed two steps each, their POSTs alternating
C23_Witness ==
    /\ \A r \in RunIds :
          /\ runs[r].pc = "returned"
          /\ The(runs[r].ret).status = "completed"
          /\ Len(The(runs[r].ret).results) = 2
    /\ Len(sent) = 4
    /\ sent[1].run = 1 /\ sent[2].run = 2
    /\ sent[3].run = 1 /\ sent[4].run = 2

(***************************************************************************)
(* The tools of the HTTP host together: a workflow run or a health         *)
(* aggregation, and system_listServices at any moment of it.               *)
(***************************************************************************)
\* list_configured_services_implementation: the registrations in the order
\* of the dict
ListServices ==
    /\ listed = None
    /\ listed' = Some([k \in 1..Len(ServiceOrder("mcp_host")) |->
                         [namespace |-> ServiceOrder("mcp_host")[k],
                          url |-> registry[ServiceOrder("mcp_host")[k]]]])
    /\ RegistryFrame
    /\ UNCHANGED <<wvars, hvars, xvars>>

InitHost ==
    \/ Init /\ host = "http"
    \/ InitHealth /\ aggregator = "mcp_host"

NextHost ==
    \/ Next
    \/ NextHealth
    \/ ListServices

SpecHost == InitHost /\ [][NextHost]_vars

\* C24: the registry is read-only after startup.  In every state the HTTP
\* host reaches through call_tool, execute_workflow, system_health and
\* system_listServices, SERVICES is the dict it was at startup, and what
\* system_listServices returned is that dict's registrations.
C24_RegistryReadOnly ==
    /\ registry = SERVICES
    /\ listed # None
          => /\ Len(The(listed)) = Cardinality(DOMAIN SERVICES)
             /\ \A k \in 1..Len(The(listed)) :
                   /\ The(listed)[k].namespace \in DOMAIN SERVICES
                   /\ The(listed)[k].url = SERVICES[The(listed)[k].namespace]

\* a workflow has run to its end through two POSTs and the services were
\* listed on the way
C24_Witness ==
    /\ pc = "returned"
    /\ Len(sent) = 2
    /\ listed # None
    /\ registry = SERVICES

\* the identifiers a wire request of the HTTP host carries
IdsOf(post) == {post.json.id, post.json.params.id}

\* C25: every wire request of the HTTP host carries an Envelope id and an
\* outer request id, both drawn for this request: they differ from each
\* other, neither is the run's correlation id, and no request carries an
\* identifier an earlier request carried.
C25_FreshDistinctIds ==
    host = "http" =>
       /\ \A p \in 1..Len(sent) :
             /\ sent[p].json.id # sent[p].json.params.id
             /\ correlation_id \cap IdsOf(sent[p]) = {}
       /\ \A p, q \in 1..Len(sent) :
             p # q => IdsOf(sent[p]) \cap IdsOf(sent[q]) = {}

\* three requests have been posted in one run
C25_Witness ==
    /\ host = "http"
    /\ Len(sent) = 3
    /\ Cardinality(UNION {IdsOf(sent[p]) : p \in 1..Len(sent)}) = 6

\* the states of a run: Pending, Running(i), Completed, Failed(i)
RunState ==
    IF pc = "pending" THEN "Pending"
    ELSE IF pc \in {"loop", "awaiting"} THEN "Running"
    ELSE IF pc = "returned" /\ The(ret).status = "completed" THEN "Completed"
    ELSE IF pc = "returned" /\ The(ret).status = "failed" THEN "Failed"
    ELSE "Aborted"

\* C26: a run that nothing cancels goes Pending -> Running(0) -> ... ->
\* Running(i) -> Completed or Failed(i).  The index starts at 0 and each
\* step adds at most one to it, and only after the step's success; the k-th
\* step handed to call_tool is the step of index k-1, so the steps are
\* dispatched in definition order, each once; a run fails at the index it is
\* at and completes at the end of its steps; a Completed or Failed run
\* takes no further step.
C26_RunStateMachine ==
    [][ /\ RunState = "Pending"
           => /\ RunState' \in {"Pending", "Running"}
              /\ i' = 0 /\ calls' = <<>>
        /\ RunState = "Running"
           => /\ cancelled' \/ RunState' \in {"Running", "Completed", "Failed"}
              /\ i' \in {i, i + 1}
              /\ i' = i + 1
                    => /\ Len(results') = i'
                       /\ ~IsErr(results'[i'])
                       /\ RunState' = "Running"
              /\ RunState' = "Failed" => Len(results') = i + 1
              /\ RunState' = "Completed" => i = Len(Steps)
        /\ RunState \in {"Completed", "Failed"} => UNCHANGED wvars
        /\ \A k \in 1..Len(calls') : calls'[k].step = k - 1
        /\ Len(calls') \in {Len(calls), Len(calls) + 1}
        /\ Len(calls') = Len(calls) + 1
              => RunState = "Running" /\ calls'[Len(calls')].step = i
      ]_vars

\* a run completed its three steps
C26_Witness ==
    /\ RunState = "Completed"
    /\ i = 3
    /\ Len(calls) = 3
    /\ calls[3].step = 2

\* C27: in every failed WorkflowResult, of either host, the reason is the
\* result of the last entry of the returned results, and the last entry is
\* the only one whose result is an error.
C27_ReasonIsLastResult ==
    (ret # None /\ Returned.status = "failed") =>
        LET r == Returned
            n == Len(r.results) IN
        /\ n >= 1
        /\ r.reason = r.results[n].result
        /\ IsErr(r.results[n])
        /\ \A j \in 1..(n - 1) : ~IsErr(r.results[j])

\* a run failed at its second step on the reply of a downstream call
C27_Witness ==
    /\ ret # None
    /\ Returned.status = "failed"
    /\ Len(Returned.results) = 2
    /\ Len(settled) = 2
    /\ Returned.reason = ResultOfSettled(2)

\* C28: the engine of the HTTP host and the engine of the STDIO host
\* classify the same steps as malformed: the step a run has arrived at is
\* refused by the one exactly when it is refused by the other.
C28_EnginesAgree ==
    (pc = "loop" /\ i < Len(Steps)) =>
        (Malformed("http", CurrentStep) <=> Malformed("stdio", CurrentStep))

\* what does hold: a step the STDIO engine refuses is refused by the HTTP
\* engine as well
StdioMalformedIsHttpMalformed ==
    (pc = "loop" /\ i < Len(Steps)) =>
        (Malformed("stdio", CurrentStep) => Malformed("http", CurrentStep))

(***************************************************************************)
(* The one-time health check: main of check_health.py ("check_health")     *)
(* hands one check_service_health per service to asyncio.gather, prints    *)
(* the entries and the summary line.                                       *)
(***************************************************************************)
InitCheck ==
    /\ aggregator = "check_health"
    /\ hpc = "pending"
    /\ probe = [k \in 1..Len(Probed(aggregator)) |-> ProbeIdle]
    /\ health_status = <<>>
    /\ host = "http"
    /\ workflow = [name |-> <<"wf">>, steps |-> <<>>]
    /\ supplied = None
    /\ pc = "off"
    /\ i = 0
    /\ results = <<>>
    /\ correlation_id = None
    /\ uuid_count = 0
    /\ calls = <<>>
    /\ sent = <<>>
    /\ inflight = {}
    /\ ret = None
    /\ settled = <<>>
    /\ cancelled = FALSE
    /\ registry = SERVICES
    /\ listed = None
    /\ IdleOther

\* gather returns the entries of its tasks in the order of the tasks; main
\* prints them and the summary line
CheckMain ==
    /\ hpc = "running"
    /\ aggregator = "check_health"
    /\ \A k \in DOMAIN probe : probe[k].state = "settled"
    /\ hpc' = "returned"
    /\ health_status' =
          [k \in DOMAIN probe |->
              ProbeEntry(aggregator, Probed(aggregator)[k], probe[k].resp)]
    /\ summary' = Some(SummaryOf(health_status'))
    /\ UNCHANGED <<aggregator, probe>>
    /\ RegistryFrame
    /\ UNCHANGED <<wvars, listed, runs, files, backups, write_log>>

NextCheck ==
    \/ HealthStart
    \/ ProbeSettle
    \/ CheckMain

SpecCheck == InitCheck /\ [][NextCheck]_vars

\* the probes that returned HTTP 200
Returned200 ==
    { k \in DOMAIN probe :
        probe[k].resp.exc = "" /\ probe[k].resp.status_code = 200 }

\* C29: the summary of the one-time health check counts as healthy exactly
\* the services whose probe returned HTTP 200.
C29_SummaryCounts200 ==
    summary # None =>
        The(summary).healthy = Cardinality(Returned200)

\* what does hold: a service that is offline or whose probe raised is not
\* counted, every service that answered with any status is
SummaryCountsAnswers ==
    summary # None =>
        /\ The(summary).total = Len(probe)
        /\ The(summary).healthy =
              Cardinality({ k \in DOMAIN probe : probe[k].resp.exc = "" })

(***************************************************************************)
(* os.linux.cli.writeFile: write_file_tool of 01_linux_cli_mcp             *)
(* A path is the sequence of its components ("/tmp/../etc/passwd" is       *)
(* <<"tmp", "..", "etc", "passwd">>), a file's content a sequence of the   *)
(* chunks written to it.  files maps the files of the file system to       *)
(* their content, None for a file that does not exist; backups holds the   *)
(* copies cp has made; write_log keeps, for each call, its arguments, its  *)
(* return value and the file system before and after it.                   *)
(***************************************************************************)
\* Number of calls of the tool in a behaviour.
MaxWrites == 2

\* ALLOWED_WRITE_PATHS with the default of the environment variable
ALLOWED_WRITE_PATHS == << <<"tmp">> >>

\* the files of the model's file system
FilePaths ==
    { <<"tmp", "a.txt">>, <<"etc", "passwd">>, <<"tmpfoo", "a.txt">> }

\* the paths a caller passes: inside /tmp, outside, out of /tmp by "..",
\* a sibling directory whose name starts with tmp, a symbolic link in /tmp
WritePaths ==
    { <<"tmp", "a.txt">>, <<"etc", "passwd">>,
      <<"tmp", "..", "etc", "passwd">>, <<"tmpfoo", "a.txt">>,
      <<"tmp", "link">> }

WriteContents == { <<"new">> }

RECURSIVE normpath(_, _)
\* os.path.normpath: "." is dropped, ".." removes the component before it
normpath(path, acc) ==
    IF path = <<>> THEN acc
    ELSE normpath(Tail(path),
                  IF Head(path) = "." THEN acc
                  ELSE IF Head(path) = ".."
                  THEN IF acc = <<>> THEN acc
                       ELSE SubSeq(acc, 1, Len(acc) - 1)
                  ELSE Append(acc, Head(path)))

\* os.path.abspath of an absolute path
abspath(path) == normpath(path, <<>>)

\* os.path.commonpath of two absolute paths: their longest common prefix
\* of whole components
commonpath(a, b) ==
    LET n == CHOOSE n \in 0..Len(a) :
                 /\ n <= Len(b)
                 /\ \A k \in 1..n : a[k] = b[k]
                 /\ ~(n < Len(a) /\ n < Len(b) /\ a[n + 1] = b[n + 1])
    IN SubSeq(a, 1, n)

\* mutant: the path is compared as given, ".." and all
is_path_allowedAsGiven(path) ==
    \E k \in 1..Len(ALLOWED_WRITE_PATHS) :
        /\ ALLOWED_WRITE_PATHS[k] # <<>>
        /\ commonpath(path, abspath(ALLOWED_WRITE_PATHS[k]))
             = abspath(ALLOWED_WRITE_PATHS[k])

\* SecurityValidator.is_path_allowed(path, "write")
is_path_allowed(path) ==
    \E k \in 1..Len(ALLOWED_WRITE_PATHS) :
        /\ ALLOWED_WRITE_PATHS[k] # <<>>
        /\ commonpath(abspath(path), abspath(ALLOWED_WRITE_PATHS[k]))
             = abspath(ALLOWED_WRITE_PATHS[k])

\* the file the operating system opens for a path: /tmp/link is a symbolic
\* link to /etc/passwd
FileOf(path) ==
    IF abspath(path) = <<"tmp", "link">> THEN <<"etc", "passwd">>
    ELSE abspath(path)

\* os.path.exists(path)
exists(fs, path) == FileOf(path) \in DOMAIN fs /\ fs[FileOf(path)] # None

\* what subprocess.run(['cp', ...]) and open/write may end in
CpOutcomes == {"ok", "fails"}

WriteOutcomes == {"ok", "open_fails", "write_fails"}

\* create_backup: whether a copy was made, and the copies afterwards
create_backup(fs, bk, path, cp) ==
    IF ~exists(fs, path) THEN [made |-> FALSE, backups |-> bk]
    ELSE IF cp = "ok"
    THEN [made |-> TRUE,
          backups |-> bk \cup {[path |-> path,
                                content |-> The(fs[FileOf(path)])]}]
    ELSE [made |-> FALSE, backups |-> bk]

\* with open(path, mode) as f: f.write(content).  Opening with 'w'
\* truncates the file before anything is written
open_write(fs, path, content, append, io) ==
    LET f == FileOf(path)
        old == IF exists(fs, path) THEN The(fs[f]) ELSE <<>> IN
    IF io = "open_fails" \/ f \notin DOMAIN fs THEN fs
    ELSE IF io = "write_fails"
    THEN [fs EXCEPT ![f] = Some(IF append THEN old ELSE <<>>)]
    ELSE [fs EXCEPT ![f] = Some(IF append THEN old \o content ELSE content)]

InitWrite ==
    /\ files \in { [f \in FilePaths |->
                      IF f = <<"etc", "passwd">> THEN Some(<<"root">>)
                      ELSE IF f = <<"tmp", "a.txt">> THEN a
                      ELSE None] : a \in {None, Some(<<"old">>)} }
    /\ backups = {}
    /\ write_log = <<>>
    /\ runs = <<>>
    /\ summary = None
    /\ host = "http"
    /\ workflow = [name |-> <<"wf">>, steps |-> <<>>]
    /\ supplied = None
    /\ pc = "off"
    /\ i = 0
    /\ results = <<>>
    /\ correlation_id = None
    /\ uuid_count = 0
    /\ calls = <<>>
    /\ sent = <<>>
    /\ inflight = {}
    /\ ret = None
    /\ settled = <<>>
    /\ cancelled = FALSE
    /\ IdleHealth
    /\ registry = SERVICES
    /\ listed = None

\* mutant: the file is written whatever create_backup returned
backup_refusesNever(append, fs, path, made) == FALSE

\* if not append and os.path.exists(path): if not create_backup(path)
backup_refuses(append, fs, path, made) ==
    ~append /\ exists(fs, path) /\ ~made

\* what one call returns and leaves behind
write_file(fs, bk, path, content, append, requires_approval, cp, io) ==
    IF requires_approval
    THEN [ret |-> "Error: Approval required to write file",
          files |-> fs, backups |-> bk]
    ELSE IF ~is_path_allowed(path)
    THEN [ret |-> "Error: Access denied to write path",
          files |-> fs, backups |-> bk]
    ELSE LET b == IF ~append /\ exists(fs, path)
                  THEN create_backup(fs, bk, path, cp)
                  ELSE [made |-> FALSE, backups |-> bk] IN
         IF backup_refuses(append, fs, path, b.made)
         THEN [ret |-> "Error: Failed to create backup",
               files |-> fs, backups |-> b.backups]
         ELSE [ret |-> IF io = "ok" THEN "Successfully wrote"
                       ELSE "Error writing file",
               files |-> open_write(fs, path, content, append, io),
               backups |-> b.backups]

\* one call of the tool
write_file_tool ==
    /\ Len(write_log) < MaxWrites
    /\ \E path \in WritePaths, content \in WriteContents,
          append \in BOOLEAN, requires_approval \in BOOLEAN,
          cp \in CpOutcomes, io \in WriteOutcomes :
          LET out == write_file(files, backups, path, content, append,
                                requires_approval, cp, io) IN
          /\ files' = out.files
          /\ backups' = out.backups
          /\ write_log' = Append(write_log,
                 [path |-> path, content |-> content, append |-> append,
                  requires_approval |-> requires_approval,
                  ret |-> out.ret, before |-> files, after |-> out.files])
    /\ RegistryFrame
    /\ UNCHANGED <<wvars, hvars, listed, runs, summary>>

NextWrite == write_file_tool

SpecWrite == InitWrite /\ [][NextWrite]_vars

\* the returns that refuse the write
Refusals ==
    { "Error: Approval required to write file",
      "Error: Access denied to write path",
      "Error: Failed to create backup" }

\* the path, made absolute, is below one of the allowed write paths
LiesInsideAllowed(path) ==
    \E k \in 1..Len(ALLOWED_WRITE_PATHS) :
        LET base == ALLOWED_WRITE_PATHS[k] IN
        /\ Len(abspath(path)) >= Len(base)
        /\ SubSeq(abspath(path), 1, Len(base)) = base

\* C30: a call of write_file_tool changes a file only if requires_approval
\* is false and the path lies inside an allowed write path; when it writes
\* an existing file with append false, a backup copy holding the file's
\* content of before the call exists; a call that refuses (approval
\* required, access denied, backup failed) leaves every file as it was.
C30_WriteGuarded ==
    \A n \in 1..Len(write_log) :
        LET e == write_log[n] IN
        /\ e.after # e.before
              => ~e.requires_approval /\ LiesInsideAllowed(e.path)
        /\ (e.ret \notin Refusals /\ ~e.append /\ exists(e.before, e.path))
              => [path |-> e.path,
                  content |-> The(e.before[FileOf(e.path)])] \in backups
        /\ e.ret \in Refusals => e.after = e.before

\* an existing file in /tmp was overwritten after its backup was made, and
\* a later call was refused because cp failed
C30_Witness ==
    /\ Len(write_log) = 2
    /\ write_log[1].ret = "Successfully wrote"
    /\ write_log[1].path = <<"tmp", "a.txt">>
    /\ ~write_log[1].append
    /\ write_log[1].before[<<"tmp", "a.txt">>] = Some(<<"old">>)
    /\ write_log[1].after[<<"tmp", "a.txt">>] = Some(<<"new">>)
    /\ [path |-> <<"tmp", "a.txt">>, content |-> <<"old">>] \in backups
    /\ write_log[2].ret = "Error: Failed to create backup"

====
